---- MODULE Spec2Model ----
(***************************************************************************)
(* go-msvc/log: the tree of named loggers (src/logger.go, lines 1-304).    *)
(*                                                                         *)
(* A logger is a heap object; the heap is the sequence `loggers`, a        *)
(* pointer is an index into it and Nil (0) is the nil pointer.  Strings    *)
(* that the code inspects character by character (logger names, data       *)
(* names, paths) are sequences of one-character strings.                   *)
(***************************************************************************)
EXTENDS Integers, Sequences, FiniteSets, TLC

VARIABLES
    loggers,    \* the heap of logger structs; loggers[Top] is the variable top
    ret,        \* what the most recent call returned (or that it panicked)
    written,    \* the Write calls the most recent call made, in order
    threads,    \* the goroutines that call the loggers at the same time
    args,       \* the arguments of the call of a function of the encoder
    arrays,     \* the arrays that the column slices of the encoders point into
    encoders    \* the columnEncoder values the program has been given

\* The variables of the encoder, which the methods of a logger leave alone.
enc == <<args, arrays, encoders>>

vars == <<loggers, ret, written, threads, args, arrays, encoders>>

(***************************************************************************)
(* Bounds of the model.                                                    *)
(***************************************************************************)
MaxLoggers == 3

(***************************************************************************)
(* Values.                                                                 *)
(***************************************************************************)
Nil == 0
Top == 1

\* The goroutines, and the state of a sync.Mutex: the name of the goroutine
\* that holds it, or Unlocked (its zero value).
Threads == {"t1", "t2"}
Unlocked == "unlocked"

\* The Level type lives in a file of the package that is not among the
\* sources; the scale is the one the specification gives.
TraceLevel == 0
DebugLevel == 1
InfoLevel == 2
WarnLevel == 3
ErrorLevel == 4
FatalLevel == 5
_minLevel == TraceLevel
_maxLevel == FatalLevel

NilValue == "nil"
NilWriter == "nil"
NilEncoder == "nil"
Stderr == "os.Stderr"

Lower == {"a","b","c","d","e","f","g","h","i","j","k","l","m",
          "n","o","p","q","r","s","t","u","v","w","x","y","z"}
Upper == {"A","B","C","D","E","F","G","H","I","J","K","L","M",
          "N","O","P","Q","R","S","T","U","V","W","X","Y","Z"}
Digit == {"0","1","2","3","4","5","6","7","8","9"}
AlNum == Lower \cup Upper \cup Digit
NameBody == AlNum \cup {".", "_", "-"}

\* A pattern without the rule for the last character.
ValidNameAnyTail(n) ==
    /\ Len(n) >= 1
    /\ n[1] \in Lower
    /\ \A i \in 2..Len(n) : n[i] \in NameBody

\* namePattern, anchored: one lowercase letter, then optionally any number
\* of body characters followed by one letter or digit.
ValidName(n) ==
    /\ Len(n) >= 1
    /\ n[1] \in Lower
    /\ \/ Len(n) = 1
       \/ /\ \A i \in 2..(Len(n) - 1) : n[i] \in NameBody
          /\ n[Len(n)] \in AlNum


(***************************************************************************)
(* Return values.  Every call leaves one record in ret.                    *)
(***************************************************************************)
Returned(kind, l, v, ok) == [kind |-> kind, logger |-> l, value |-> v, ok |-> ok]
\* panic(msg): value holds the message, without the name it quotes.
Panic(msg) == Returned("panic", Nil, msg, FALSE)
InvalidLoggerName == "invalid logger name"
MissingLoggerName == "missing logger name"
InvalidSetName == "logger.Set is invalid name"
Void == Returned("void", Nil, NilValue, FALSE)
RetLogger(l) == Returned("logger", l, NilValue, TRUE)
RetValue(v, ok) == Returned("value", Nil, v, ok)

\* A method's outcome: the heap it leaves and what it returns.
Outcome(h, r) == [heap |-> h, ret |-> r]

\* The values of a map, as `for _, ll := range m` visits them.
Range(m) == {m[k] : k \in DOMAIN m}

\* An empty Go map.
EmptyMap == <<>>

\* m[k] = v
MapPut(m, k, v) == (k :> v) @@ m

\* delete(m, k)
MapDelete(m, k) == [x \in DOMAIN m \ {k} |-> m[x]]

(***************************************************************************)
(* logger.Logger(n): the child named n, created on first request.          *)
(***************************************************************************)
\* The struct literal of a new child of l.
\* A child that starts with the entries of its parent's data.
NewSubParentData(h, l, n) ==
    [mutex   |-> Unlocked,
     parent  |-> l,
     name    |-> n,
     level   |-> h[l].level,
     data    |-> h[l].data,
     subs    |-> EmptyMap,
     writer  |-> h[l].writer,
     encoder |-> h[l].encoder]

NewSub(h, l, n) ==
    [mutex   |-> Unlocked,
     parent  |-> l,
     name    |-> n,
     level   |-> h[l].level,
     data    |-> EmptyMap,
     subs    |-> EmptyMap,
     writer  |-> h[l].writer,
     encoder |-> h[l].encoder]

\* A lookup that does not consult the children it already has.
LoggerMethodNoCache(h, l, n) ==
    IF ~ValidName(n) THEN Outcome(h, Panic(InvalidLoggerName))
    ELSE LET sub == Len(h) + 1
         IN Outcome(Append([h EXCEPT ![l].subs = MapPut(@, n, sub)], NewSub(h, l, n)),
                    RetLogger(sub))

LoggerMethod(h, l, n) ==
    IF ~ValidName(n) THEN Outcome(h, Panic(InvalidLoggerName))
    ELSE IF n \in DOMAIN h[l].subs THEN Outcome(h, RetLogger(h[l].subs[n]))
    ELSE LET sub == Len(h) + 1
         IN Outcome(Append([h EXCEPT ![l].subs = MapPut(@, n, sub)], NewSub(h, l, n)),
                    RetLogger(sub))

(***************************************************************************)
(* Logger(name): the registry lookup of a path.                            *)
(***************************************************************************)
RECURSIVE SplitN(_, _)
\* strings.SplitN(s, sep, -1) for a one-character separator.
SplitN(s, sep) ==
    IF \E i \in 1..Len(s) : s[i] = sep
    THEN LET i == CHOOSE j \in 1..Len(s) : s[j] = sep /\ \A k \in 1..(j - 1) : s[k] # sep
         IN <<SubSeq(s, 1, i - 1)>> \o SplitN(SubSeq(s, i + 1, Len(s)), sep)
    ELSE <<s>>

RECURSIVE LoggerWalk(_, _, _)
\* A walk that returns whatever logger it ends at, the top logger included.
LoggerWalkToTop(h, log, names) ==
    IF Len(names) > 0
    THEN IF Len(names[1]) > 0
         THEN LET r == LoggerMethod(h, log, names[1])
              IN IF r.ret.kind = "panic" THEN r
                 ELSE LoggerWalk(r.heap, r.ret.logger, Tail(names))
         ELSE LoggerWalk(h, log, Tail(names))
    ELSE Outcome(h, RetLogger(log))

\* The loop of Logger(name) over the names that are left, then its end.
LoggerWalk(h, log, names) ==
    IF Len(names) > 0
    THEN IF Len(names[1]) > 0
         THEN LET r == LoggerMethod(h, log, names[1])
              IN IF r.ret.kind = "panic" THEN r
                 ELSE LoggerWalk(r.heap, r.ret.logger, Tail(names))
         ELSE LoggerWalk(h, log, Tail(names))
    ELSE IF log = Top THEN Outcome(h, Panic(MissingLoggerName))
         ELSE Outcome(h, RetLogger(log))

Logger(h, name) == LoggerWalk(h, Top, SplitN(name, "/"))

(***************************************************************************)
(* logger.Set, logger.Get, logger.With: the data of a logger.              *)
(***************************************************************************)
Set(h, l, n, v) ==
    IF ~ValidName(n) THEN Outcome(h, Panic(InvalidSetName))
    ELSE Outcome([h EXCEPT ![l].data = MapPut(@, n, v)], Void)

RECURSIVE Get(_, _, _)
\* A Get that asks the parent first and its own data last.
GetParentFirst(h, l, n) ==
    IF h[l].parent # Nil /\ Get(h, h[l].parent, n).ok THEN Get(h, h[l].parent, n)
    ELSE IF n \in DOMAIN h[l].data THEN RetValue(h[l].data[n], TRUE)
    ELSE RetValue(NilValue, FALSE)

Get(h, l, n) ==
    IF n \in DOMAIN h[l].data THEN RetValue(h[l].data[n], TRUE)
    ELSE IF h[l].parent # Nil THEN Get(h, h[l].parent, n)
    ELSE RetValue(NilValue, FALSE)

RECURSIVE With(_, _, _, _)
RECURSIVE WithSubs(_, _, _)
\* The loop of With over the children that are left: ll.With(n, nil).
WithSubs(h, lls, n) ==
    IF lls = {} THEN h
    ELSE LET ll == CHOOSE x \in lls : TRUE
         IN WithSubs(With(h, ll, n, NilValue).heap, lls \ {ll}, n)

With(h, l, n, v) ==
    IF ValidName(n)
    THEN LET h1 == IF v = NilValue
                   THEN [h EXCEPT ![l].data = MapDelete(@, n)]
                   ELSE [h EXCEPT ![l].data = MapPut(@, n, v)]
         IN Outcome(WithSubs(h1, Range(h1[l].subs), n), RetLogger(l))
    ELSE Outcome(h, RetLogger(l))

(***************************************************************************)
(* SetLevel, SetEncoder, SetWriter: set here and in every child.           *)
(***************************************************************************)
RECURSIVE SetLevel(_, _, _)
RECURSIVE SetLevelSubs(_, _, _)
WithLevel(h, l, level) == Outcome(SetLevel(h, l, level).heap, RetLogger(l))

SetLevelSubs(h, lls, level) ==
    IF lls = {} THEN h
    ELSE LET ll == CHOOSE x \in lls : TRUE
         IN SetLevelSubs(WithLevel(h, ll, level).heap, lls \ {ll}, level)

\* A SetLevel that leaves the children alone.
SetLevelLocal(h, l, level) ==
    IF level >= _minLevel /\ level <= _maxLevel
    THEN Outcome([h EXCEPT ![l].level = level], Void)
    ELSE Outcome(h, Void)

\* A SetLevel that takes any level.
SetLevelAnyLevel(h, l, level) ==
    LET h1 == [h EXCEPT ![l].level = level]
    IN Outcome(SetLevelSubs(h1, Range(h1[l].subs), level), Void)

SetLevel(h, l, level) ==
    IF level >= _minLevel /\ level <= _maxLevel
    THEN LET h1 == [h EXCEPT ![l].level = level]
         IN Outcome(SetLevelSubs(h1, Range(h1[l].subs), level), Void)
    ELSE Outcome(h, Void)

RECURSIVE SetEncoder(_, _, _)
RECURSIVE SetEncoderSubs(_, _, _)
WithEncoder(h, l, e) == Outcome(SetEncoder(h, l, e).heap, RetLogger(l))

SetEncoderSubs(h, lls, e) ==
    IF lls = {} THEN h
    ELSE LET ll == CHOOSE x \in lls : TRUE
         IN SetEncoderSubs(WithEncoder(h, ll, e).heap, lls \ {ll}, e)

\* A SetEncoder that leaves the children alone.
SetEncoderLocal(h, l, e) ==
    IF e # NilEncoder
    THEN Outcome([h EXCEPT ![l].encoder = e], Void)
    ELSE Outcome(h, Void)

SetEncoder(h, l, e) ==
    IF e # NilEncoder
    THEN LET h1 == [h EXCEPT ![l].encoder = e]
         IN Outcome(SetEncoderSubs(h1, Range(h1[l].subs), e), Void)
    ELSE Outcome(h, Void)

RECURSIVE SetWriter(_, _, _)
RECURSIVE SetWriterSubs(_, _, _)
WithWriter(h, l, w) == Outcome(SetWriter(h, l, w).heap, RetLogger(l))

SetWriterSubs(h, lls, w) ==
    IF lls = {} THEN h
    ELSE LET ll == CHOOSE x \in lls : TRUE
         IN SetWriterSubs(WithWriter(h, ll, w).heap, lls \ {ll}, w)

SetWriter(h, l, w) ==
    IF w # NilWriter
    THEN LET h1 == [h EXCEPT ![l].writer = w]
         IN Outcome(SetWriterSubs(h1, Range(h1[l].subs), w), Void)
    ELSE Outcome(h, Void)

(***************************************************************************)
(* logger.log: filter, build the record, encode it, write it.              *)
(***************************************************************************)
\* unicode.IsGraphic, on the characters the model uses.
Graphic == AlNum \cup {".", "_", "-", "/", " "}

\* strings.Map dropping the runes that are not graphic.
CleanMessage(msg) == SelectSeq(msg, LAMBDA r : r \in Graphic)

\* The record of a log call; its time and caller come from the runtime.
Record(level, msg) == [Level |-> level, Message |-> CleanMessage(msg)]

\* encoder.Encode(l, record): the bytes are a function of the encoder, the
\* logger and the record.
Encode(e, l, r) == [encoder |-> e, logger |-> l, record |-> r]

\* One writer.Write(bytes) call.
Write(w, bytes) == [writer |-> w, bytes |-> bytes]

\* The writers whose Write returns an error: "w1" stands for a file that
\* has been closed; the Write of os.Stderr succeeds.
FailingWriters == {"w1"}

\* The error that w.Write returns.
WriteError(w) == IF w \in FailingWriters THEN "write error" ELSE "nil"

\* A log call that panics with the error of the Write.
LogReturnError(h, l, level, msg) ==
    IF h[l].encoder = NilEncoder \/ h[l].writer = NilWriter THEN Void
    ELSE IF level >= h[l].level /\ WriteError(h[l].writer) # "nil"
         THEN Panic(WriteError(h[l].writer))
         ELSE Void

\* What l.log(skip, level, msg) gives its caller: it returns, whether it has
\* written or not; what Write returns (n, err) is dropped.
LogReturn(h, l, level, msg) ==
    IF h[l].encoder = NilEncoder \/ h[l].writer = NilWriter THEN Void
    ELSE IF level >= h[l].level
         THEN LET err == WriteError(h[l].writer) IN Void
         ELSE Void

\* A log call that lets only the messages above the logger's level through.
LogAboveLevel(h, l, level, msg) ==
    IF h[l].encoder = NilEncoder \/ h[l].writer = NilWriter THEN <<>>
    ELSE IF level > h[l].level
         THEN <<Write(h[l].writer, Encode(h[l].encoder, l, Record(level, msg)))>>
         ELSE <<>>

\* The Write calls of l.log(skip, level, msg).
Log(h, l, level, msg) ==
    IF h[l].encoder = NilEncoder \/ h[l].writer = NilWriter THEN <<>>
    ELSE IF level >= h[l].level
         THEN <<Write(h[l].writer, Encode(h[l].encoder, l, Record(level, msg)))>>
         ELSE <<>>


(***************************************************************************)
(* textField: a text cut and padded to the width of a column.  A string is *)
(* the sequence of its bytes: "a" and "b" are one-byte characters, and the *)
(* bytes C3 A9 together are one two-byte character (UTF-8).                *)
(***************************************************************************)
Space == " "
LeadByte == "C3"
ContByte == "A9"

\* The first character of s is the two-byte character.
TwoBytes(s) == Len(s) >= 2 /\ s[1] = LeadByte /\ s[2] = ContByte

RECURSIVE RuneCount(_)
\* utf8.RuneCountInString, by which fmt pads: a byte that is not part of a
\* complete character counts as one character.
RuneCount(s) ==
    IF s = <<>> THEN 0
    ELSE IF TwoBytes(s) THEN 1 + RuneCount(SubSeq(s, 3, Len(s)))
    ELSE 1 + RuneCount(Tail(s))

RECURSIVE FirstRunes(_, _)
\* The precision of %.*s: the first p characters of s.
FirstRunes(s, p) ==
    IF p <= 0 \/ s = <<>> THEN <<>>
    ELSE IF TwoBytes(s) THEN <<LeadByte, ContByte>> \o FirstRunes(SubSeq(s, 3, Len(s)), p - 1)
    ELSE <<s[1]>> \o FirstRunes(Tail(s), p - 1)

Spaces(n) == [i \in 1..n |-> Space]

\* fmt.Sprintf("%-*.*s", w, p, s): at most p characters of s, then spaces up
\* to w characters (the flag - pads on the right).
SprintfLeft(w, p, s) ==
    LET t == FirstRunes(s, p)
    IN t \o Spaces(IF w > RuneCount(t) THEN w - RuneCount(t) ELSE 0)

\* A textField that keeps the head of a text that is too long.
textFieldHead(w, s) ==
    IF w <= 0 THEN s
    ELSE SprintfLeft(w, w, IF Len(s) > w THEN SubSeq(s, 1, w) ELSE s)

textField(w, s) ==
    IF w <= 0 THEN s
    ELSE LET l == Len(s)
         IN SprintfLeft(w, w, IF l > w THEN SubSeq(s, l - w + 1, l) ELSE s)

\* What textField and the encoder return: a text.
RetText(s) == Returned("text", Nil, s, TRUE)

(***************************************************************************)
(* The column encoder.  A columnEncoder is a value with one field, the     *)
(* slice columns: a pointer to an array, a length and a capacity.  The     *)
(* arrays are on a heap of their own, `arrays`; a slot of an array that no *)
(* append has filled holds NoColumn.                                       *)
(***************************************************************************)
RECURSIVE Name(_, _)
\* A Name that puts no "/" after the empty name of the top logger.
NameJoined(h, l) ==
    IF h[l].parent = Nil THEN h[l].name
    ELSE IF h[h[l].parent].parent = Nil THEN h[l].name
    ELSE Name(h, h[l].parent) \o <<"/">> \o h[l].name

\* logger.Name(): the names from the top, each after a "/".
Name(h, l) ==
    IF h[l].parent = Nil THEN h[l].name
    ELSE Name(h, h[l].parent) \o <<"/">> \o h[l].name

\* The constructors of the columns and of their texts.
Column(name, text) == [name |-> name, text |-> text]
TimeText(fmt) == [kind |-> "timeText", fmt |-> fmt, name |-> <<>>, width |-> 0]
LevelText(width) == [kind |-> "levelText", fmt |-> "", name |-> <<>>, width |-> width]
NameText(width) == [kind |-> "nameText", fmt |-> "", name |-> <<>>, width |-> width]
ModuleText(width) == [kind |-> "moduleText", fmt |-> "", name |-> <<>>, width |-> width]
CodeText(width) == [kind |-> "codeText", fmt |-> "", name |-> <<>>, width |-> width]
MessageText(width) == [kind |-> "messageText", fmt |-> "", name |-> <<>>, width |-> width]
DataText(fmt, name, width) ==
    [kind |-> "dataText", fmt |-> IF fmt = "" THEN "%v" ELSE fmt, name |-> name, width |-> width]

NoColumn == Column("", [kind |-> "nil", fmt |-> "", name |-> <<>>, width |-> 0])

\* A slice: the array it points into (Nil for the empty literal), its
\* length and its capacity.
Slice(array, len, cap) == [array |-> array, len |-> len, cap |-> cap]

\* The elements of a slice.
Elements(A, s) == IF s.len = 0 THEN <<>> ELSE SubSeq(A[s.array], 1, s.len)

\* The capacity that append gives a slice of capacity cap that has to hold
\* need elements (runtime.growslice, for small slices of 16-byte elements).
growslice(cap, need) == IF need > 2 * cap THEN need ELSE 2 * cap

\* append(s, elems...): the arrays and the slice after it.  With room in
\* the array of s the elements are written into that array, after the
\* elements of s; without, into a new array after a copy of them.
append(A, s, elems) ==
    LET need == s.len + Len(elems)
    IN IF need <= s.cap
       THEN [arrays |-> IF elems = <<>> THEN A
                        ELSE [A EXCEPT ![s.array] =
                                 [i \in 1..s.cap |->
                                     IF i > s.len /\ i <= need THEN elems[i - s.len] ELSE @[i]]],
             slice  |-> Slice(s.array, need, s.cap)]
       ELSE LET cap == growslice(s.cap, need)
                old == Elements(A, s)
            IN [arrays |-> Append(A, [i \in 1..cap |->
                                         IF i <= s.len THEN old[i]
                                         ELSE IF i <= need THEN elems[i - s.len]
                                         ELSE NoColumn]),
                slice  |-> Slice(Len(A) + 1, need, cap)]

\* NewColumnEncoder(): columnEncoder{columns: []IColumn{}}.
NewColumnEncoder == [columns |-> Slice(Nil, 0, 0)]

\* ce.Columns()
Columns(A, ce) == Elements(A, ce.columns)

\* ce.With(cols...): the arrays after it and the encoder it returns.
columnEncoderWith(A, ce, cols) ==
    LET a == append(A, ce.columns, cols)
    IN [arrays |-> a.arrays, encoder |-> [columns |-> a.slice]]

\* DefaultEncoder(): six columns, one With after the other.
DefaultColumns ==
    <<Column("time", TimeText("2006-01-02 15:04:05.000")),
      Column("level", LevelText(5)),
      Column("logger", NameText(10)),
      Column("module", ModuleText(15)),
      Column("code", CodeText(30)),
      Column("message", MessageText(0))>>

RECURSIVE WithEach(_, _, _)
WithEach(A, ce, cols) ==
    IF cols = <<>> THEN [arrays |-> A, encoder |-> ce]
    ELSE LET w == columnEncoderWith(A, ce, <<Head(cols)>>)
         IN WithEach(w.arrays, w.encoder, Tail(cols))

DefaultEncoder(A) == WithEach(A, NewColumnEncoder, DefaultColumns)

\* fmt.Sprintf("%v", v) of the values the data is tried with.
SprintfValue(v) ==
    IF v = NilValue THEN <<"<", "n", "i", "l", ">">>
    ELSE [i \in 1..2 |-> IF i = 1 THEN "v" ELSE IF v = "v1" THEN "1" ELSE "2"]

\* The Text method of the texts.  The time, the level, the module and the
\* code come from the clock, the Level type and the call stack: each is a
\* text of one character that stands for what they give.
Text(c, h, l, r) ==
    CASE c.kind = "timeText" -> <<"<time>">>
      [] c.kind = "levelText" -> textField(c.width, <<"<level>">>)
      [] c.kind = "nameText" -> textField(c.width, Name(h, l))
      [] c.kind = "moduleText" -> textField(c.width, <<"<module>">>)
      [] c.kind = "codeText" -> textField(c.width, <<"<code>">>)
      [] c.kind = "messageText" -> textField(c.width, r.Message)
      [] c.kind = "dataText" ->
            LET g == Get(h, l, c.name)
            IN textField(c.width, IF g.ok THEN SprintfValue(g.value) ELSE <<>>)

\* column.Text
ColumnText(col, h, l, r) == Text(col.text, h, l, r)

RECURSIVE EncodeLoop(_, _, _, _)
\* The loop of Encode: "|" and the text of each column.
EncodeLoop(cols, h, l, r) ==
    IF cols = <<>> THEN <<>>
    ELSE <<"|">> \o ColumnText(Head(cols), h, l, r) \o EncodeLoop(Tail(cols), h, l, r)

\* columnEncoder.Encode: the loop, "\n", and all but the first byte.
columnEncoderEncode(A, ce, h, l, r) ==
    LET text == EncodeLoop(Columns(A, ce), h, l, r) \o <<"\n">>
    IN SubSeq(text, 2, Len(text))

(***************************************************************************)
(* The inputs the calls are tried with.                                    *)
(***************************************************************************)
SegmentInputs ==
    {<<"a">>, <<"b", "_", "1">>,
     <<>>, <<"A">>, <<"1", "a">>, <<"a", "/", "b">>,
     <<"a", ".">>, <<"a", "_">>, <<"a", "-">>}

PathInputs ==
    {<<>>, <<"/">>, <<"/", "/">>,
     <<"a">>, <<"a", "/", "a">>, <<"/", "a">>, <<"a", "/">>,
     <<"a", "/", "/", "b", "_", "1">>,
     <<"a", "/", "A">>, <<"A", "/", "a">>, <<"a", "_", "/", "a">>}

KeyInputs == {<<"k">>, <<"K">>}
ValueInputs == {NilValue, "v1", "v2"}
LevelInputs == {_minLevel - 1, _maxLevel, _maxLevel + 1}
LogLevelInputs == {TraceLevel, DebugLevel, FatalLevel}
MessageInputs == {<<"x", "\n", "y">>}
WriterInputs == {NilWriter, "w1"}
EncoderInputs == {NilEncoder, "e1"}

(***************************************************************************)
(* The state after init(): the top logger alone.                           *)
(***************************************************************************)
TopLogger ==
    [mutex   |-> Unlocked,
     parent  |-> Nil,
     name    |-> <<>>,
     level   |-> DebugLevel,
     data    |-> EmptyMap,
     subs    |-> EmptyMap,
     writer  |-> Stderr,
     encoder |-> "DefaultEncoder"]

\* No function of the encoder is being called.
NoArgs == [fn |-> "none"]

\* A goroutine that has not called anything yet.
Idle == [status |-> "idle", stack |-> <<>>, ret |-> Void, call |-> <<>>]

Init ==
    /\ loggers = <<TopLogger>>
    /\ ret = Void
    /\ written = <<>>
    /\ threads = [t \in Threads |-> Idle]
    /\ args = NoArgs
    /\ arrays = <<>>
    /\ encoders = <<>>

Loggers == 1..Len(loggers)

(***************************************************************************)
(* One action per call of the package, run to its return.                  *)
(***************************************************************************)
\* A call that changes the heap and writes nothing.
Call(r) ==
    LET o == r
    IN /\ Len(o.heap) <= MaxLoggers
       /\ ret' = o.ret
       /\ loggers' = o.heap
       /\ written' = <<>>
       /\ UNCHANGED <<threads, enc>>

CallLogger(name) == Call(Logger(loggers, name))

CallLoggerMethod(l, n) == Call(LoggerMethod(loggers, l, n))

CallSet(l, n, v) == Call(Set(loggers, l, n, v))

CallWith(l, n, v) == Call(With(loggers, l, n, v))

CallGet(l, n) == Call(Outcome(loggers, Get(loggers, l, n)))

CallSetLevel(l, level) == Call(SetLevel(loggers, l, level))

CallSetEncoder(l, e) == Call(SetEncoder(loggers, l, e))

CallSetWriter(l, w) == Call(SetWriter(loggers, l, w))

CallLog(l, level, msg) ==
    /\ written' = Log(loggers, l, level, msg)
    /\ ret' = LogReturn(loggers, l, level, msg)
    /\ UNCHANGED <<loggers, threads, enc>>

\* The lookups that make a logger, tried in the specifications that are
\* about what the loggers hold.
ValidSegments == {n \in SegmentInputs : ValidName(n)}
ValidPaths == {<<"a">>, <<"a", "/", "/", "b", "_", "1">>}

\* The hierarchy with the level and the writer of the loggers, and the log
\* calls they filter and route.
Next ==
    \/ \E name \in ValidPaths : CallLogger(name)
    \/ \E l \in Loggers, n \in ValidSegments : CallLoggerMethod(l, n)
    \/ \E l \in Loggers, level \in LevelInputs : CallSetLevel(l, level)
    \/ \E l \in Loggers, w \in WriterInputs : CallSetWriter(l, w)
    \/ \E l \in Loggers, level \in LogLevelInputs, msg \in MessageInputs :
          CallLog(l, level, msg)

Spec == Init /\ [][Next]_vars

\* The lookups with every name, good and bad, and the levels.
NextNames ==
    \/ \E name \in PathInputs : CallLogger(name)
    \/ \E l \in Loggers, n \in SegmentInputs : CallLoggerMethod(l, n)
    \/ \E l \in Loggers, level \in LevelInputs : CallSetLevel(l, level)

SpecNames == Init /\ [][NextNames]_vars

\* The hierarchy with the encoder and the writer of the loggers.
NextOut ==
    \/ \E name \in ValidPaths : CallLogger(name)
    \/ \E l \in Loggers, n \in ValidSegments : CallLoggerMethod(l, n)
    \/ \E l \in Loggers, e \in EncoderInputs : CallSetEncoder(l, e)
    \/ \E l \in Loggers, w \in WriterInputs : CallSetWriter(l, w)
    \/ \E l \in Loggers, level \in LogLevelInputs, msg \in MessageInputs :
          CallLog(l, level, msg)

SpecOut == Init /\ [][NextOut]_vars

\* The hierarchy with the data of the loggers.
NextData ==
    \/ \E name \in ValidPaths : CallLogger(name)
    \/ \E l \in Loggers, n \in ValidSegments : CallLoggerMethod(l, n)
    \/ \E l \in Loggers, n \in KeyInputs, v \in ValueInputs : CallSet(l, n, v)
    \/ \E l \in Loggers, n \in KeyInputs, v \in ValueInputs : CallWith(l, n, v)
    \/ \E l \in Loggers, n \in KeyInputs : CallGet(l, n)

SpecData == Init /\ [][NextData]_vars

\* The children, with the writer and the encoder that their parents have
\* when they are made, and the data of parents and children.
NextChild ==
    \/ \E l \in Loggers, n \in ValidSegments : CallLoggerMethod(l, n)
    \/ \E l \in Loggers, w \in WriterInputs : CallSetWriter(l, w)
    \/ \E l \in Loggers, e \in EncoderInputs : CallSetEncoder(l, e)
    \/ \E l \in Loggers, n \in KeyInputs : CallSet(l, n, "v1")

SpecChild == Init /\ [][NextChild]_vars

\* textField on its own: the widths and the texts it is tried with.
MaxWidth == 3
MaxText == 3
WidthInputs == -1..MaxWidth
TextChars == {<<"a">>, <<"b">>, <<LeadByte, ContByte>>}

RECURSIVE Texts(_)
\* The texts of at most n characters.
Texts(n) ==
    IF n = 0 THEN {<<>>}
    ELSE LET T == Texts(n - 1) IN T \cup {c \o t : c \in TextChars, t \in T}

InitTextField ==
    /\ loggers = <<TopLogger>>
    /\ ret = Void
    /\ written = <<>>
    /\ threads = [t \in Threads |-> Idle]
    /\ args \in {[fn |-> "textField", w |-> w, s |-> s] :
                    w \in WidthInputs, s \in Texts(MaxText)}
    /\ arrays = <<>>
    /\ encoders = <<>>

CallTextField ==
    /\ args.fn = "textField"
    /\ ret = Void
    /\ ret' = RetText(textField(args.w, args.s))
    /\ UNCHANGED <<loggers, written, threads, enc>>

NextTextField == CallTextField

SpecTextField == InitTextField /\ [][NextTextField]_vars

\* The encoders: made, given columns, and used to encode a record.
MaxEncoders == 3

\* What a call that makes an encoder returns: the place of the encoder
\* among the values the program holds.
RetEncoder(e) == Returned("encoder", e, NilValue, TRUE)

ColumnInputs ==
    {<<Column("message", MessageText(0))>>,
     <<Column("k", DataText("", <<"k">>, 3))>>,
     <<Column("logger", NameText(2)), Column("message", MessageText(2))>>}

\* A call that makes an encoder.
MakeEncoder(fn, w) ==
    /\ Len(encoders) < MaxEncoders
    /\ arrays' = w.arrays
    /\ encoders' = Append(encoders, w.encoder)
    /\ args' = [fn |-> fn]
    /\ ret' = RetEncoder(Len(encoders) + 1)
    /\ UNCHANGED <<loggers, written, threads>>

CallNewColumnEncoder ==
    MakeEncoder("NewColumnEncoder", [arrays |-> arrays, encoder |-> NewColumnEncoder])

CallDefaultEncoder == MakeEncoder("DefaultEncoder", DefaultEncoder(arrays))

CallColumnEncoderWith(e, cols) ==
    MakeEncoder("With", columnEncoderWith(arrays, encoders[e], cols))

CallEncode(e, l, level, msg) ==
    /\ args' = [fn |-> "Encode", ce |-> e, l |-> l, r |-> Record(level, msg)]
    /\ ret' = RetText(columnEncoderEncode(arrays, encoders[e], loggers, l, Record(level, msg)))
    /\ UNCHANGED <<loggers, written, threads, arrays, encoders>>

NextEncode ==
    \/ CallNewColumnEncoder
    \/ CallDefaultEncoder
    \/ \E e \in 1..Len(encoders), cols \in ColumnInputs : CallColumnEncoderWith(e, cols)
    \/ \E e \in 1..Len(encoders), l \in Loggers, msg \in MessageInputs :
          CallEncode(e, l, InfoLevel, msg)
    \/ \E l \in Loggers : CallLoggerMethod(l, <<"a">>)
    \/ \E l \in Loggers : CallSet(l, <<"k">>, "v1")

SpecEncode == Init /\ [][NextEncode]_vars

(***************************************************************************)
(* GetCaller (record.go).  A call stack is a sequence of frames, the       *)
(* innermost first: Go's frame index i is element i + 1.  A pc names a     *)
(* frame by its place in the stack, and 0 is the zero pc of a slot that    *)
(* runtime.Callers has not filled.  Texts are sequences of characters.     *)
(***************************************************************************)
\* make([]uintptr, 10): the most frames that are retrieved.
PcSize == 10

NA == <<"N", "/", "A">>
CallerOf(package, function, file, line) ==
    [Package |-> package, Function |-> function, File |-> file, Line |-> line]
\* The descriptor GetCaller starts from.
UnknownCaller == CallerOf(NA, NA, NA, -1)

\* runtime.Frame, of which Function, File and Line are read.
StackFrame(function, file, line) == [Function |-> function, File |-> file, Line |-> line]
\* What Frames.Next returns when there is no frame to return: Frame{}.
ZeroFrame == StackFrame(<<>>, <<>>, 0)

LastIndex(s, c) ==
    IF \E i \in 1..Len(s) : s[i] = c
    THEN CHOOSE i \in 1..Len(s) : s[i] = c /\ \A k \in (i + 1)..Len(s) : s[k] # c
    ELSE 0

\* path.Dir(s), for a clean path s: what is before the last slash, and "."
\* when that is nothing.
Dir(s) ==
    LET i == LastIndex(s, "/")
    IN IF i = 0 THEN <<".">> ELSE IF i = 1 THEN <<"/">> ELSE SubSeq(s, 1, i - 1)

\* path.Base(s), for a clean path s: what is after the last slash, "." for
\* the empty path.
Base(s) ==
    IF s = <<>> THEN <<".">>
    ELSE LET i == LastIndex(s, "/")
         IN IF i = Len(s) THEN <<"/">> ELSE SubSeq(s, i + 1, Len(s))

\* strings.SplitN(s, sep, 2): a split at the first separator only.
SplitN2(s, sep) ==
    IF \E i \in 1..Len(s) : s[i] = sep
    THEN LET i == CHOOSE j \in 1..Len(s) : s[j] = sep /\ \A k \in 1..(j - 1) : s[k] # sep
         IN <<SubSeq(s, 1, i - 1), SubSeq(s, i + 1, Len(s))>>
    ELSE <<s>>

\* The descriptor that GetCaller makes of a frame.
Descriptor(frame) ==
    LET d0 == Dir(frame.Function)
        d  == IF d0 = <<".">> THEN <<>> ELSE d0
        b  == Base(frame.Function)
        p  == SplitN2(b, ".")
    IN IF Len(p) = 2
       THEN CallerOf(d \o <<"/">> \o p[1], p[2], frame.File, frame.Line)
       ELSE CallerOf(<<"?">>, frame.Function, frame.File, frame.Line)

\* runtime.Callers(0, pc): the number of pcs it has stored in pc.
Callers(stack) == IF Len(stack) < PcSize THEN Len(stack) ELSE PcSize

\* The array pc after runtime.Callers(0, pc).
Pcs(stack) == [i \in 1..PcSize |-> IF i <= Callers(stack) THEN i ELSE 0]

\* frames.Next() of runtime.CallersFrames(<<pc>>): the frame of the pc, and
\* Frame{} for a pc that is in no function.
FramesNext(stack, pc) == IF pc = 0 THEN ZeroFrame ELSE stack[pc]

RetCaller(c) == Returned("caller", Nil, c, TRUE)
SliceBounds == "slice bounds out of range"

\* GetCaller(skip) when the call stack is stack.  pc[skip : skip+1] panics
\* when skip + 1 is more than the capacity of pc.
GetCaller(skip, stack) ==
    LET n == Callers(stack)
    IN IF n >= skip
       THEN IF skip + 1 > PcSize THEN Panic(SliceBounds)
            ELSE RetCaller(Descriptor(FramesNext(stack, Pcs(stack)[skip + 1])))
       ELSE RetCaller(UnknownCaller)

(***************************************************************************)
(* The specification of GetCaller: every skip count on every call stack.   *)
(***************************************************************************)
MaxSkip == 11
MaxDepth == 12
SkipInputs == 0..MaxSkip
FunctionInputs ==
    <<  <<"m", ".", "f">>,
        <<"g", "/", "l", ".", "f">>,
        <<"g", "/", "l", ".", "T", ".", "f">>,
        <<"f">>  >>
\* The call stack of depth d: runtime.Callers, GetCaller, and their callers.
StackOf(d) ==
    [i \in 1..d |->
        IF i = 1 THEN StackFrame(<<"r", ".", "C">>, <<"e">>, 1)
        ELSE IF i = 2 THEN StackFrame(<<"g", "/", "l", ".", "G">>, <<"r">>, 50)
        ELSE StackFrame(FunctionInputs[(i % 4) + 1], <<"c">>, i)]
StackInputs == {StackOf(d) : d \in 2..MaxDepth}

InitCaller ==
    /\ loggers = <<TopLogger>>
    /\ ret = Void
    /\ written = <<>>
    /\ threads = [t \in Threads |-> Idle]
    /\ args \in {[fn |-> "GetCaller", skip |-> skip, stack |-> stack] :
                    skip \in SkipInputs, stack \in StackInputs}
    /\ arrays = <<>>
    /\ encoders = <<>>

CallGetCaller ==
    /\ args.fn = "GetCaller"
    /\ ret = Void
    /\ ret' = GetCaller(args.skip, args.stack)
    /\ UNCHANGED <<loggers, written, threads, enc>>

NextCaller == CallGetCaller

SpecCaller == InitCaller /\ [][NextCaller]_vars

(***************************************************************************)
(* The methods statement by statement, as goroutines interleave them.  A   *)
(* goroutine makes one call; its stack holds one frame per call that has   *)
(* not returned, the innermost first.  A step is one statement that reads  *)
(* or writes a field of a logger, or locks its mutex; the deferred Unlock  *)
(* goes with the statement before the return.                              *)
(***************************************************************************)
Frame(fn, pc, l, n, level, v) ==
    [fn |-> fn, pc |-> pc, l |-> l, n |-> n, level |-> level, v |-> v,
     todo |-> {}, visited |-> {}, sub |-> Nil]

Cur(t) == Head(threads[t].stack)
Running(t) == threads[t].status = "running"
At(t, fn, pc) == Running(t) /\ Cur(t).fn = fn /\ Cur(t).pc = pc

\* The goroutine's stack with the innermost frame at its next statement.
Goto(t, pc) == [threads EXCEPT ![t].stack[1].pc = pc]

\* The innermost call returns r; the fan-out loops drop what they are given.
Return(t, r) ==
    LET rest == Tail(threads[t].stack)
    IN IF rest = <<>>
       THEN [threads EXCEPT ![t].status = "done", ![t].stack = <<>>, ![t].ret = r]
       ELSE [threads EXCEPT ![t].stack = rest]

\* The loggers a caller can hold: top, those in a child map, those returned.
Published ==
    {x \in Loggers : x = Top \/ \E p \in Loggers : x \in Range(loggers[p].subs)}
    \cup {threads[t].ret.logger : t \in {u \in Threads : threads[u].ret.kind = "logger"}}

\* The calls of Logger that may still make a logger.
Allocating ==
    Cardinality({t \in Threads : /\ Running(t)
                                 /\ Cur(t).fn = "Logger"
                                 /\ Cur(t).pc \in {"find", "lock", "new"}})

\* go f(): a goroutine starts a call.
Go(t, f) ==
    /\ threads[t].status = "idle"
    /\ threads' = [threads EXCEPT ![t] =
                      [status |-> "running", stack |-> <<f>>, ret |-> Void, call |-> <<f>>]]
    /\ UNCHANGED <<loggers, ret, written, enc>>

GoLogger(t, l, n) ==
    /\ Len(loggers) + Allocating < MaxLoggers
    /\ Go(t, Frame("Logger", "find", l, n, _minLevel, NilValue))

GoSet(t, l, n, v) == Go(t, Frame("Set", "lock", l, n, _minLevel, v))

GoGet(t, l, n) == Go(t, Frame("Get", "load", l, n, _minLevel, NilValue))

GoWith(t, l, n, v) == Go(t, Frame("With", "store", l, n, _minLevel, v))

GoSetLevel(t, l, level) == Go(t, Frame("SetLevel", "store", l, <<>>, level, NilValue))

GoSetEncoder(t, l, e) == Go(t, Frame("SetEncoder", "store", l, <<>>, _minLevel, e))

GoSetWriter(t, l, w) == Go(t, Frame("SetWriter", "store", l, <<>>, _minLevel, w))

\* logger.Logger: the name, and the child map read before the lock.
LoggerFind(t) ==
    /\ At(t, "Logger", "find")
    /\ LET f == Cur(t)
       IN threads' = IF ~ValidName(f.n) THEN Return(t, Panic(InvalidLoggerName))
                     ELSE IF f.n \in DOMAIN loggers[f.l].subs
                     THEN Return(t, RetLogger(loggers[f.l].subs[f.n]))
                     ELSE Goto(t, "lock")
    /\ UNCHANGED <<loggers, ret, written, enc>>

\* l.mutex.Lock()
LoggerLock(t) ==
    /\ At(t, "Logger", "lock")
    /\ loggers[Cur(t).l].mutex = Unlocked
    /\ loggers' = [loggers EXCEPT ![Cur(t).l].mutex = t]
    /\ threads' = Goto(t, "new")
    /\ UNCHANGED <<ret, written, enc>>

\* sub := &logger{...}: reads l.level, l.writer and l.encoder.
LoggerNew(t) ==
    /\ At(t, "Logger", "new")
    /\ LET f == Cur(t)
       IN /\ loggers' = Append(loggers, NewSub(loggers, f.l, f.n))
          /\ threads' = [threads EXCEPT ![t].stack[1] =
                            [f EXCEPT !.pc = "store", !.sub = Len(loggers) + 1]]
    /\ UNCHANGED <<ret, written, enc>>

\* l.subs[n] = sub; return sub (and the deferred Unlock).
LoggerStore(t) ==
    /\ At(t, "Logger", "store")
    /\ LET f == Cur(t)
       IN /\ loggers' = [loggers EXCEPT ![f.l].subs = MapPut(@, f.n, f.sub),
                                        ![f.l].mutex = Unlocked]
          /\ threads' = Return(t, RetLogger(f.sub))
    /\ UNCHANGED <<ret, written, enc>>

\* logger.Set: the name, then l.mutex.Lock().
SetLock(t) ==
    /\ At(t, "Set", "lock")
    /\ LET f == Cur(t)
       IN IF ~ValidName(f.n)
          THEN /\ threads' = Return(t, Panic(InvalidSetName))
               /\ UNCHANGED loggers
          ELSE /\ loggers[f.l].mutex = Unlocked
               /\ loggers' = [loggers EXCEPT ![f.l].mutex = t]
               /\ threads' = Goto(t, "store")
    /\ UNCHANGED <<ret, written, enc>>

\* l.data[n] = v (and the deferred Unlock).
SetStore(t) ==
    /\ At(t, "Set", "store")
    /\ LET f == Cur(t)
       IN /\ loggers' = [loggers EXCEPT ![f.l].data = MapPut(@, f.n, f.v),
                                        ![f.l].mutex = Unlocked]
          /\ threads' = Return(t, Void)
    /\ UNCHANGED <<ret, written, enc>>

\* logger.Get: l.data[n], else the same in the parent.
GetLoad(t) ==
    /\ At(t, "Get", "load")
    /\ LET f == Cur(t)
       IN threads' = IF f.n \in DOMAIN loggers[f.l].data
                     THEN Return(t, RetValue(loggers[f.l].data[f.n], TRUE))
                     ELSE IF loggers[f.l].parent # Nil
                     THEN [threads EXCEPT ![t].stack[1].l = loggers[f.l].parent]
                     ELSE Return(t, RetValue(NilValue, FALSE))
    /\ UNCHANGED <<loggers, ret, written, enc>>

\* logger.SetLevel: the range check and l.level = level.
SetLevelStore(t) ==
    /\ At(t, "SetLevel", "store")
    /\ LET f == Cur(t)
       IN IF f.level >= _minLevel /\ f.level <= _maxLevel
          THEN /\ loggers' = [loggers EXCEPT ![f.l].level = f.level]
               /\ threads' = Goto(t, "range")
          ELSE /\ threads' = Return(t, Void)
               /\ UNCHANGED loggers
    /\ UNCHANGED <<ret, written, enc>>

\* logger.SetEncoder: the nil check and l.encoder = e.
SetEncoderStore(t) ==
    /\ At(t, "SetEncoder", "store")
    /\ LET f == Cur(t)
       IN IF f.v # NilEncoder
          THEN /\ loggers' = [loggers EXCEPT ![f.l].encoder = f.v]
               /\ threads' = Goto(t, "range")
          ELSE /\ threads' = Return(t, Void)
               /\ UNCHANGED loggers
    /\ UNCHANGED <<ret, written, enc>>

\* logger.SetWriter: the nil check and l.writer = w.
SetWriterStore(t) ==
    /\ At(t, "SetWriter", "store")
    /\ LET f == Cur(t)
       IN IF f.v # NilWriter
          THEN /\ loggers' = [loggers EXCEPT ![f.l].writer = f.v]
               /\ threads' = Goto(t, "range")
          ELSE /\ threads' = Return(t, Void)
               /\ UNCHANGED loggers
    /\ UNCHANGED <<ret, written, enc>>

\* logger.With: the name, and delete(l.data, n) or l.data[n] = v.
WithStore(t) ==
    /\ At(t, "With", "store")
    /\ LET f == Cur(t)
       IN IF ValidName(f.n)
          THEN /\ loggers' = [loggers EXCEPT ![f.l].data =
                                 IF f.v = NilValue THEN MapDelete(@, f.n)
                                 ELSE MapPut(@, f.n, f.v)]
               /\ threads' = Goto(t, "range")
          ELSE /\ threads' = Return(t, RetLogger(f.l))
               /\ UNCHANGED loggers
    /\ UNCHANGED <<ret, written, enc>>

\* for _, ll := range l.subs: the loop starts over the keys the map has.
RangeSubs(t) ==
    /\ Running(t)
    /\ Cur(t).pc = "range"
    /\ threads' = [threads EXCEPT ![t].stack[1] =
                      [Cur(t) EXCEPT !.pc = "loop", !.todo = DOMAIN loggers[Cur(t).l].subs]]
    /\ UNCHANGED <<loggers, ret, written, enc>>

\* What the method returns after its loop.
LoopReturn(f) == IF f.fn = "With" THEN RetLogger(f.l) ELSE Void

\* One turn of the loop.  It reads the map as it is now: a key stored since
\* the loop started is produced or skipped; with every key of the start
\* produced the loop can end.  The body calls the With-method of the child
\* (ll.With(n, nil) in logger.With), which calls the method itself.
NextSub(t) ==
    /\ Running(t)
    /\ Cur(t).pc = "loop"
    /\ LET f == Cur(t)
       IN \/ \E k \in DOMAIN loggers[f.l].subs \ f.visited :
                threads' = [threads EXCEPT ![t].stack =
                    <<Frame(f.fn, "store", loggers[f.l].subs[k], f.n, f.level,
                            IF f.fn = "With" THEN NilValue ELSE f.v)>>
                    \o <<[f EXCEPT !.visited = @ \cup {k}]>> \o Tail(@)]
          \/ /\ f.todo \subseteq f.visited
             /\ threads' = Return(t, LoopReturn(f))
    /\ UNCHANGED <<loggers, ret, written, enc>>

\* The field of a logger that the next statement of a goroutine reads or
\* writes.
Access(l, field, write) == [l |-> l, field |-> field, write |-> write]

NextAccess(t) ==
    IF ~Running(t) THEN {}
    ELSE LET f == Cur(t)
         IN CASE f.fn = "Logger" /\ f.pc = "find" ->
                    IF ValidName(f.n) THEN {Access(f.l, "subs", FALSE)} ELSE {}
              [] f.fn = "Logger" /\ f.pc = "new" ->
                    {Access(f.l, "level", FALSE), Access(f.l, "writer", FALSE),
                     Access(f.l, "encoder", FALSE)}
              [] f.fn = "Logger" /\ f.pc = "store" -> {Access(f.l, "subs", TRUE)}
              [] f.fn = "Set" /\ f.pc = "store" -> {Access(f.l, "data", TRUE)}
              [] f.fn = "Get" /\ f.pc = "load" -> {Access(f.l, "data", FALSE)}
              [] f.fn = "With" /\ f.pc = "store" ->
                    IF ValidName(f.n) THEN {Access(f.l, "data", TRUE)} ELSE {}
              [] f.fn = "SetLevel" /\ f.pc = "store" ->
                    IF f.level >= _minLevel /\ f.level <= _maxLevel
                    THEN {Access(f.l, "level", TRUE)} ELSE {}
              [] f.fn = "SetEncoder" /\ f.pc = "store" ->
                    IF f.v # NilEncoder THEN {Access(f.l, "encoder", TRUE)} ELSE {}
              [] f.fn = "SetWriter" /\ f.pc = "store" ->
                    IF f.v # NilWriter THEN {Access(f.l, "writer", TRUE)} ELSE {}
              [] f.pc \in {"range", "loop"} -> {Access(f.l, "subs", FALSE)}
              [] OTHER -> {}

\* Two goroutines are about to access the same field of the same logger,
\* one of them to write it, with nothing that orders the two statements.
DataRace(fields) ==
    \E t \in Threads, u \in Threads :
        \E a \in NextAccess(t), b \in NextAccess(u) :
            /\ t # u
            /\ a.field \in fields
            /\ a.l = b.l
            /\ a.field = b.field
            /\ a.write \/ b.write

\* The Go runtime may detect a map that is written while it is read or
\* written, and then ends the process: "fatal error: concurrent map writes".
Crashed == [status |-> "crashed", stack |-> <<>>, ret |-> Void, call |-> <<>>]

ConcurrentMapAccess ==
    /\ DataRace({"subs", "data"})
    /\ threads' = [t \in Threads |-> Crashed]
    /\ UNCHANGED <<loggers, ret, written, enc>>

\* The loggers are made before the goroutines start.
Setup ==
    /\ \A t \in Threads : threads[t].status = "idle"
    /\ \E l \in Loggers, n \in ValidSegments :
          /\ n \notin DOMAIN loggers[l].subs
          /\ CallLoggerMethod(l, n)

\* What the goroutines call the methods with.
ThreadSegments == ValidSegments \cup {<<"A">>}
ThreadValues == {NilValue, "v1"}
ThreadLevels == {_minLevel, _maxLevel, _maxLevel + 1}

NextConc ==
    \/ Setup
    \/ \E t \in Threads, l \in Published, n \in ThreadSegments : GoLogger(t, l, n)
    \/ \E t \in Threads, l \in Published, n \in KeyInputs, v \in ThreadValues : GoSet(t, l, n, v)
    \/ \E t \in Threads, l \in Published, n \in KeyInputs : GoGet(t, l, n)
    \/ \E t \in Threads, l \in Published, n \in KeyInputs, v \in ThreadValues : GoWith(t, l, n, v)
    \/ \E t \in Threads, l \in Published, level \in ThreadLevels : GoSetLevel(t, l, level)
    \/ \E t \in Threads, l \in Published, e \in EncoderInputs : GoSetEncoder(t, l, e)
    \/ \E t \in Threads, l \in Published, w \in WriterInputs : GoSetWriter(t, l, w)
    \/ \E t \in Threads : LoggerFind(t)
    \/ \E t \in Threads : LoggerLock(t)
    \/ \E t \in Threads : LoggerNew(t)
    \/ \E t \in Threads : LoggerStore(t)
    \/ \E t \in Threads : SetLock(t)
    \/ \E t \in Threads : SetStore(t)
    \/ \E t \in Threads : GetLoad(t)
    \/ \E t \in Threads : SetLevelStore(t)
    \/ \E t \in Threads : SetEncoderStore(t)
    \/ \E t \in Threads : SetWriterStore(t)
    \/ \E t \in Threads : WithStore(t)
    \/ \E t \in Threads : RangeSubs(t)
    \/ \E t \in Threads : NextSub(t)
    \/ ConcurrentMapAccess

SpecConc == Init /\ [][NextConc]_vars

(***************************************************************************)
(* The goroutines under a fair scheduler.  Every method is called with one *)
(* input of each kind, Name is called too, and a goroutine that can take   *)
(* its next step takes it in the end.  A goroutine that waits in           *)
(* l.mutex.Lock() can take no step while another holds the mutex.          *)
(***************************************************************************)
GoName(t, l) == Go(t, Frame("Name", "walk", l, <<>>, _minLevel, NilValue))

\* logger.Name: l.parent == nil, else l.parent.Name(); the names are put
\* together on the way back.
NameWalk(t) ==
    /\ At(t, "Name", "walk")
    /\ LET f == Cur(t)
       IN threads' = IF loggers[f.l].parent = Nil
                     THEN Return(t, RetText(Name(loggers, threads[t].call[1].l)))
                     ELSE [threads EXCEPT ![t].stack[1].l = loggers[f.l].parent]
    /\ UNCHANGED <<loggers, ret, written, enc>>

\* The next statement of goroutine t.
ThreadStep(t) ==
    \/ LoggerFind(t)
    \/ LoggerLock(t)
    \/ LoggerNew(t)
    \/ LoggerStore(t)
    \/ SetLock(t)
    \/ SetStore(t)
    \/ GetLoad(t)
    \/ SetLevelStore(t)
    \/ SetEncoderStore(t)
    \/ SetWriterStore(t)
    \/ WithStore(t)
    \/ RangeSubs(t)
    \/ NextSub(t)
    \/ NameWalk(t)

NextFair ==
    \/ Setup
    \/ \E t \in Threads, l \in Published : GoLogger(t, l, <<"a">>)
    \/ \E t \in Threads, l \in Published : GoSet(t, l, <<"k">>, "v1")
    \/ \E t \in Threads, l \in Published : GoGet(t, l, <<"k">>)
    \/ \E t \in Threads, l \in Published : GoWith(t, l, <<"k">>, NilValue)
    \/ \E t \in Threads, l \in Published : GoSetLevel(t, l, _maxLevel)
    \/ \E t \in Threads, l \in Published : GoSetEncoder(t, l, "e1")
    \/ \E t \in Threads, l \in Published : GoSetWriter(t, l, "w1")
    \/ \E t \in Threads, l \in Published : GoName(t, l)
    \/ \E t \in Threads : ThreadStep(t)
    \/ ConcurrentMapAccess

SpecFair == Init /\ [][NextFair]_vars /\ \A t \in Threads : WF_vars(ThreadStep(t))

(***************************************************************************)
(* What the claims speak of, read off the heap without the methods: the    *)
(* tree by its parent pointers, a path by the child maps.                  *)
(***************************************************************************)
RECURSIVE Chain(_, _)
\* l, its parent, ..., the top logger.
Chain(h, l) == IF h[l].parent = Nil THEN <<l>> ELSE <<l>> \o Chain(h, h[l].parent)

\* l and every logger below it.
Subtree(h, l) == {d \in 1..Len(h) : \E i \in 1..Len(Chain(h, d)) : Chain(h, d)[i] = l}
Descendants(h, l) == Subtree(h, l) \ {l}

\* The entry for n nearest to l on its chain.
Nearest(h, l, n) ==
    LET c == Chain(h, l)
        holders == {i \in 1..Len(c) : n \in DOMAIN h[c[i]].data}
    IN IF holders = {} THEN RetValue(NilValue, FALSE)
       ELSE LET i == CHOOSE j \in holders : \A k \in holders : j <= k
            IN RetValue(h[c[i]].data[n], TRUE)

RECURSIVE Resolve(_, _, _)
\* The logger reached from l by the segments, Nil when one is missing.
Resolve(h, l, segs) ==
    IF segs = <<>> THEN l
    ELSE IF segs[1] \in DOMAIN h[l].subs
         THEN Resolve(h, h[l].subs[segs[1]], Tail(segs))
         ELSE Nil

NonEmpty(segs) == SelectSeq(segs, LAMBDA x : Len(x) > 0)

\* The naming rule in the words of the specification.
Described(n) ==
    /\ n # <<>>
    /\ n[1] \in Lower
    /\ \A i \in 1..Len(n) : n[i] \in NameBody
    /\ n[Len(n)] \notin {".", "_", "-"}

\* The loggers of the heap h are in h2 as they were, but for new children.
Kept(h, h2) ==
    /\ Len(h2) >= Len(h)
    /\ \A d \in 1..Len(h) :
          /\ [h2 EXCEPT ![d].subs = h[d].subs][d] = h[d]
          /\ \A n \in DOMAIN h[d].subs :
                n \in DOMAIN h2[d].subs /\ h2[d].subs[n] = h[d].subs[n]

(***************************************************************************)
(* The claims about a call are step formulas Post \/ ~Call: every step     *)
(* that is the call satisfies Post.  Post comes first, so that a step      *)
(* that satisfies it is decided without running the call again.            *)
(***************************************************************************)

(***************************************************************************)
(* C1. Sequentially, a lookup of a child or of a path that exists returns  *)
(* the logger that is there and creates none, a lookup that creates        *)
(* returns the logger it has registered, and no call ever removes or       *)
(* replaces a registered child: two lookups of one path return one logger, *)
(* whatever is called in between.                                          *)
(***************************************************************************)
C1_SameLoggerStep ==
    /\ \A l \in Loggers : \A n \in DOMAIN loggers[l].subs :
          /\ l <= Len(loggers')
          /\ n \in DOMAIN loggers'[l].subs
          /\ loggers'[l].subs[n] = loggers[l].subs[n]
    /\ ret'.kind = "logger" =>
          /\ \A l \in Loggers, n \in ValidSegments :
                \/ /\ n \in DOMAIN loggers'[l].subs
                   /\ ret'.logger = loggers'[l].subs[n]
                   /\ n \in DOMAIN loggers[l].subs =>
                         ret'.logger = loggers[l].subs[n] /\ loggers' = loggers
                \/ ~CallLoggerMethod(l, n)
          /\ \A name \in ValidPaths :
                \/ LET segs == NonEmpty(SplitN(name, "/"))
                   IN /\ ret'.logger = Resolve(loggers', Top, segs)
                      /\ Resolve(loggers, Top, segs) # Nil =>
                            ret'.logger = Resolve(loggers, Top, segs)
                               /\ loggers' = loggers
                \/ ~CallLogger(name)

C1_SameLogger == [][C1_SameLoggerStep]_vars

\* The last call returned logger 2 when a younger logger existed: it was a
\* lookup of a logger that was already there.
C1_Witness == ret = RetLogger(2) /\ Len(loggers) > 2

(***************************************************************************)
(* C3. SetLevel with a level in the range leaves that level on the logger  *)
(* and on all its descendants; no other call changes the level of a        *)
(* logger; a new child has the level its parent has.  So a child created   *)
(* after SetLevel(Y) and before the next SetLevel has level Y.             *)
(***************************************************************************)
C3_SetLevelStep ==
    /\ \A l \in Loggers, level \in LevelInputs :
          \/ ~(level >= _minLevel /\ level <= _maxLevel)
          \/ \A d \in Subtree(loggers, l) : loggers'[d].level = level
          \/ ~CallSetLevel(l, level)
    /\ \/ \A d \in Loggers : d <= Len(loggers') /\ loggers'[d].level = loggers[d].level
       \/ \E l \in Loggers, level \in LevelInputs : CallSetLevel(l, level)
    /\ \A d \in (Len(loggers) + 1)..Len(loggers') :
          loggers'[d].level = loggers'[loggers'[d].parent].level

C3_SetLevel == [][C3_SetLevelStep]_vars

\* The top logger was raised to the highest level while it had a child, and
\* the logger the last lookup returned is a grandchild with that level.
C3_Witness ==
    /\ Len(loggers) = 3
    /\ loggers[3].parent = 2
    /\ \A d \in Loggers : loggers[d].level = FatalLevel
    /\ ret = RetLogger(3)

(***************************************************************************)
(* C4. After Set(key, value) with a value that is not nil, the logger has  *)
(* the value, no descendant has an entry of its own for the key, and Get   *)
(* on every descendant returns the value.                                  *)
(***************************************************************************)
C4_SetClearsChildrenStep ==
    \A l \in Loggers, n \in KeyInputs, v \in ValueInputs \ {NilValue} :
       \/ /\ n \in DOMAIN loggers'[l].data /\ loggers'[l].data[n] = v
          /\ \A d \in Descendants(loggers, l) :
                /\ n \notin DOMAIN loggers'[d].data
                /\ Get(loggers', d, n) = RetValue(v, TRUE)
       \/ ~(CallSet(l, n, v) /\ ret'.kind # "panic")

C4_SetClearsChildren == [][C4_SetClearsChildrenStep]_vars

(***************************************************************************)
(* C5. After Set(key, nil) the logger has no entry of its own for the key, *)
(* its Get is answered by its ancestors, and the data of every descendant  *)
(* is what it was.                                                         *)
(***************************************************************************)
C5_SetNilStep ==
    \A l \in Loggers, n \in KeyInputs :
       \/ /\ n \notin DOMAIN loggers'[l].data
          /\ Get(loggers', l, n) =
                IF loggers[l].parent = Nil THEN RetValue(NilValue, FALSE)
                ELSE Get(loggers, loggers[l].parent, n)
          /\ \A d \in Descendants(loggers, l) : loggers'[d].data = loggers[d].data
       \/ ~(CallSet(l, n, NilValue) /\ ret'.kind # "panic")

C5_SetNil == [][C5_SetNilStep]_vars

(***************************************************************************)
(* C6. Get returns the entry of the nearest logger on the chain from the   *)
(* logger to the top that has one, not-found when none has, and changes    *)
(* nothing.                                                                *)
(***************************************************************************)
C6_GetStep ==
    ret'.kind = "value" =>
       \A l \in Loggers, n \in KeyInputs :
          \/ ret' = Nearest(loggers, l, n) /\ loggers' = loggers
          \/ ~CallGet(l, n)

C6_Get == [][C6_GetStep]_vars

\* Get has returned v1, which only logger 2 holds: asked of logger 2 or of
\* its child, logger 3, while the top logger holds another value.
C6_Witness ==
    /\ Len(loggers) = 3
    /\ loggers[2].parent = Top /\ loggers[3].parent = 2
    /\ <<"k">> \in DOMAIN loggers[Top].data /\ loggers[Top].data[<<"k">>] = "v2"
    /\ <<"k">> \in DOMAIN loggers[2].data /\ loggers[2].data[<<"k">>] = "v1"
    /\ <<"k">> \notin DOMAIN loggers[3].data
    /\ ret = RetValue("v1", TRUE)

(***************************************************************************)
(* C7. A log call on a logger with an encoder and a writer writes nothing  *)
(* when the message's level is below the logger's level, and otherwise     *)
(* makes one Write, to the logger's writer, of its encoder's output for    *)
(* the logger and the record; it changes no logger.                        *)
(***************************************************************************)
C7_LogStep ==
    ret' = Void =>
       \A l \in Loggers, level \in LogLevelInputs, msg \in MessageInputs :
          \/ loggers[l].encoder = NilEncoder
          \/ loggers[l].writer = NilWriter
          \/ /\ loggers' = loggers
             /\ level < loggers[l].level => written' = <<>>
             /\ level >= loggers[l].level =>
                   /\ Len(written') = 1
                   /\ written'[1].writer = loggers[l].writer
                   /\ written'[1].bytes =
                         Encode(loggers[l].encoder, l, Record(level, msg))
          \/ ~CallLog(l, level, msg)

C7_Log == [][C7_LogStep]_vars

\* A child whose writer was replaced and whose level was raised has written
\* a record of that level.
C7_Witness ==
    /\ Len(written) = 1
    /\ written[1].writer = "w1"
    /\ written[1].bytes.logger > Top
    /\ written[1].bytes.record.Level = FatalLevel
    /\ loggers[written[1].bytes.logger].level = FatalLevel

(***************************************************************************)
(* C9. As the claim has it: Logger(name) panics when a segment between     *)
(* the separators does not match the naming pattern.                       *)
(***************************************************************************)
C9_EverySegmentStep ==
    \A name \in PathInputs :
       LET segs == SplitN(name, "/")
       IN \/ (\E i \in 1..Len(segs) : ~ValidName(segs[i])) => ret'.kind = "panic"
          \/ ~CallLogger(name)

C9_EverySegment == [][C9_EverySegmentStep]_vars

(***************************************************************************)
(* C9, amended.  Logger(name) splits the name at "/", skips the empty      *)
(* segments and looks the others up in order from the top logger.  With    *)
(* no segment left it panics and creates nothing; with a segment that      *)
(* does not match the pattern it panics; otherwise it returns the logger   *)
(* at that path, all loggers on the path exist, and the loggers that were  *)
(* there are kept as they were.                                            *)
(***************************************************************************)
C9_LoggerPost(name) ==
    LET segs == NonEmpty(SplitN(name, "/"))
    IN /\ Kept(loggers, loggers')
       /\ segs = <<>> =>
             ret' = Panic(MissingLoggerName) /\ loggers' = loggers
       /\ (\E i \in 1..Len(segs) : ~Described(segs[i])) =>
             ret' = Panic(InvalidLoggerName)
       /\ segs # <<>> /\ (\A i \in 1..Len(segs) : Described(segs[i])) =>
             /\ ret'.kind = "logger"
             /\ ret'.logger # Top
             /\ ret'.logger = Resolve(loggers', Top, segs)
             /\ \A d \in (Len(loggers) + 1)..Len(loggers') :
                   \E i \in 1..Len(segs) :
                      d = Resolve(loggers', Top, SubSeq(segs, 1, i))

C9_LoggerStep ==
    ret'.kind \in {"logger", "panic"} =>
       \A name \in PathInputs : C9_LoggerPost(name) \/ ~CallLogger(name)

C9_Logger == [][C9_LoggerStep]_vars

\* A path of two segments has been looked up and both loggers made, and a
\* later name of separators alone has panicked.
C9_Witness ==
    /\ Len(loggers) = 3
    /\ Resolve(loggers, Top, <<(<<"a">>), (<<"b", "_", "1">>)>>) = 3
    /\ ret = Panic(MissingLoggerName)

(***************************************************************************)
(* C10. The Logger method panics for every segment that the naming rule    *)
(* excludes and then changes nothing; every other segment is accepted and  *)
(* is a child of the logger afterwards.                                    *)
(***************************************************************************)
C10_InvalidNameStep ==
    ret'.kind \in {"logger", "panic"} =>
       \A l \in Loggers, n \in SegmentInputs :
          \/ IF Described(n)
             THEN /\ ret'.kind = "logger"
                  /\ n \in DOMAIN loggers'[l].subs
                  /\ ret'.logger = loggers'[l].subs[n]
             ELSE ret' = Panic(InvalidLoggerName) /\ loggers' = loggers
          \/ ~CallLoggerMethod(l, n)

C10_InvalidName == [][C10_InvalidNameStep]_vars

\* A lookup on a tree of three loggers has panicked over the name.
C10_Witness == Len(loggers) = 3 /\ ret = Panic(InvalidLoggerName)

(***************************************************************************)
(* C2: when two goroutines have called Logger with the same valid segment  *)
(* on the same logger and both calls have returned, both returned the same *)
(* logger and exactly one logger was made for that segment of that parent. *)
(***************************************************************************)
SameLookup(t, u) ==
    /\ t # u
    /\ threads[t].status = "done"
    /\ threads[u].status = "done"
    /\ threads[t].call[1].fn = "Logger"
    /\ threads[u].call[1].fn = "Logger"
    /\ threads[t].call[1].l = threads[u].call[1].l
    /\ threads[t].call[1].n = threads[u].call[1].n
    /\ ValidName(threads[t].call[1].n)

C2_OneChild ==
    \A t \in Threads, u \in Threads :
        SameLookup(t, u) =>
            /\ threads[t].ret.kind = "logger"
            /\ threads[t].ret = threads[u].ret
            /\ Cardinality({x \in Loggers :
                               /\ loggers[x].parent = threads[t].call[1].l
                               /\ loggers[x].name = threads[t].call[1].n}) = 1

(***************************************************************************)
(* C8: two goroutines that run SetLevel, SetWriter, SetEncoder, Set, With   *)
(* or Logger are never about to access the level, the writer, the encoder, *)
(* the data map or the child map of the same logger at the same time with  *)
(* one of them writing it, as they would not be if each of these methods   *)
(* held the logger's mutex from its first access to the end of its loop.   *)
(***************************************************************************)
Mutator(t) == Running(t) /\ Cur(t).fn # "Get"

C8_NoDataRace ==
    \A t \in Threads, u \in Threads :
        (t # u /\ Mutator(t) /\ Mutator(u)) =>
            \A a \in NextAccess(t), b \in NextAccess(u) :
                (a.l = b.l /\ a.field = b.field) => (~a.write /\ ~b.write)

(***************************************************************************)
(* C11. SetLevel with a level below the lowest or above the highest level  *)
(* returns as every SetLevel does, without a panic, and leaves every       *)
(* logger as it was.                                                       *)
(***************************************************************************)
C11_OutOfRangeStep ==
    \A l \in Loggers, level \in LevelInputs :
       \/ level >= _minLevel /\ level <= _maxLevel
       \/ ret' = Void /\ loggers' = loggers
       \/ ~CallSetLevel(l, level)

C11_OutOfRange == [][C11_OutOfRangeStep]_vars

\* A SetLevel has just returned (nothing else returns without a value once
\* there are three loggers) and no logger has left the level of the start:
\* the level it was given was out of the range.
C11_Witness ==
    /\ ret = Void
    /\ Len(loggers) = 3
    /\ \A l \in Loggers : loggers[l].level = DebugLevel

(***************************************************************************)
(* C12. SetWriter(nil) and SetEncoder(nil) leave every logger as it was.   *)
(* SetWriter(w) and SetEncoder(e) with another value leave that value in   *)
(* the logger and in all its descendants, and change nothing else: not the *)
(* other fields of these loggers, not the loggers outside the subtree.     *)
(***************************************************************************)
\* The heap with the writer w in the subtree of l, and with the encoder e.
WriterInSubtree(h, l, w) ==
    [d \in DOMAIN h |-> IF d \in Subtree(h, l) THEN [h[d] EXCEPT !.writer = w] ELSE h[d]]

EncoderInSubtree(h, l, e) ==
    [d \in DOMAIN h |-> IF d \in Subtree(h, l) THEN [h[d] EXCEPT !.encoder = e] ELSE h[d]]

C12_SetOutputStep ==
    (ret' = Void /\ written' = <<>>) =>
       /\ \A l \in Loggers, w \in WriterInputs :
             \/ ~CallSetWriter(l, w)
             \/ loggers' = IF w = NilWriter THEN loggers
                           ELSE WriterInSubtree(loggers, l, w)
       /\ \A l \in Loggers, e \in EncoderInputs :
             \/ ~CallSetEncoder(l, e)
             \/ loggers' = IF e = NilEncoder THEN loggers
                           ELSE EncoderInSubtree(loggers, l, e)

C12_SetOutput == [][C12_SetOutputStep]_vars

\* Logger 2 and its child have the writer and the encoder that a SetWriter
\* and a SetEncoder on logger 2 were given; the top logger has not.
C12_Witness ==
    /\ ret = Void
    /\ Len(loggers) = 3
    /\ loggers[3].parent = 2
    /\ loggers[2].writer = "w1" /\ loggers[3].writer = "w1"
    /\ loggers[2].encoder = "e1" /\ loggers[3].encoder = "e1"
    /\ loggers[Top].writer = Stderr /\ loggers[Top].encoder = "DefaultEncoder"

(***************************************************************************)
(* C13. A logger that a call has made has the level, the writer and the    *)
(* encoder that its parent had when the call was made, no children and no  *)
(* data; and Set on a logger changes the data of no other logger, be it    *)
(* the parent, a sibling or a child.                                       *)
(***************************************************************************)
C13_NewChildStep ==
    /\ \A d \in (Len(loggers) + 1)..Len(loggers') :
          /\ loggers'[d].parent \in Loggers
          /\ loggers'[d].level = loggers[loggers'[d].parent].level
          /\ loggers'[d].writer = loggers[loggers'[d].parent].writer
          /\ loggers'[d].encoder = loggers[loggers'[d].parent].encoder
          /\ loggers'[d].subs = EmptyMap
          /\ loggers'[d].data = EmptyMap
    /\ \A l \in Loggers, n \in KeyInputs :
          \/ \A d \in Loggers \ {l} : loggers'[d].data = loggers[d].data
          \/ ~CallSet(l, n, "v1")

C13_NewChild == [][C13_NewChildStep]_vars

\* Logger 3 has just been made as the child of logger 2, after logger 2 was
\* given a writer, an encoder and an entry that the top logger has not: it
\* has the writer and the encoder, and not the entry.
C13_Witness ==
    /\ Len(loggers) = 3
    /\ ret = RetLogger(3)
    /\ loggers[3].parent = 2
    /\ loggers[2].data = MapPut(EmptyMap, <<"k">>, "v1")
    /\ loggers[Top].data = EmptyMap /\ loggers[3].data = EmptyMap
    /\ loggers[3].level = loggers[2].level
    /\ loggers[3].writer = "w1" /\ loggers[Top].writer = Stderr
    /\ loggers[3].encoder = "e1" /\ loggers[Top].encoder = "DefaultEncoder"

(***************************************************************************)
(* C14 as claimed. textField(w, s) is s when w <= 0; when w > 0 it is the  *)
(* last w characters of s when s has more than w characters, and otherwise *)
(* s with spaces before it up to w characters.                             *)
(***************************************************************************)
RECURSIVE Characters(_)
\* The characters of a text, one or two bytes each.
Characters(s) ==
    IF s = <<>> THEN <<>>
    ELSE IF Len(s) >= 2 /\ s[1] = LeadByte
         THEN <<SubSeq(s, 1, 2)>> \o Characters(SubSeq(s, 3, Len(s)))
         ELSE <<SubSeq(s, 1, 1)>> \o Characters(Tail(s))

RECURSIVE Bytes(_)
\* The bytes of a sequence of characters.
Bytes(cs) == IF cs = <<>> THEN <<>> ELSE Head(cs) \o Bytes(Tail(cs))

LastCharacters(s, w) ==
    LET cs == Characters(s) IN Bytes(SubSeq(cs, Len(cs) - w + 1, Len(cs)))

C14_LeftPadded ==
    ret.kind = "text" =>
       IF args.w <= 0 THEN ret.value = args.s
       ELSE IF Len(Characters(args.s)) > args.w
            THEN ret.value = LastCharacters(args.s, args.w)
            ELSE ret.value = Spaces(args.w - Len(Characters(args.s))) \o args.s

(***************************************************************************)
(* C14 as amended. textField(w, s) is s when w <= 0; when w > 0 it starts  *)
(* with the last w bytes of s when s has more than w bytes and with all of *)
(* s otherwise, the rest of it is spaces, and it has w characters: the     *)
(* text is on the left and the spaces come after it.                       *)
(***************************************************************************)
C14_TextField ==
    ret.kind = "text" =>
       IF args.w <= 0 THEN ret.value = args.s
       ELSE LET k == IF Len(args.s) > args.w THEN args.w ELSE Len(args.s)
            IN /\ Len(ret.value) >= k
               /\ SubSeq(ret.value, 1, k) = SubSeq(args.s, Len(args.s) - k + 1, Len(args.s))
               /\ \A i \in (k + 1)..Len(ret.value) : ret.value[i] = Space
               /\ RuneCount(ret.value) = args.w

\* textField(3, "ab") has returned "ab ": the text, then one space.
C14_Witness ==
    /\ args.w = 3
    /\ args.s = <<"a", "b">>
    /\ ret = RetText(<<"a", "b", " ">>)

(***************************************************************************)
(* C15. What Encode returns is the texts of the columns of the encoder, in *)
(* their order, with one "|" between two of them, and one newline at the   *)
(* end, however many columns the encoder has; the text of a data column    *)
(* whose name no logger on the way to the top has is spaces, or empty.     *)
(***************************************************************************)
RECURSIVE Join(_)
Join(texts) ==
    IF texts = <<>> THEN <<>>
    ELSE IF Len(texts) = 1 THEN texts[1]
    ELSE texts[1] \o <<"|">> \o Join(Tail(texts))

C15_Encoded ==
    (args.fn = "Encode" /\ ret.kind = "text") =>
       LET cols == Columns(arrays, encoders[args.ce])
           texts == [i \in 1..Len(cols) |-> ColumnText(cols[i], loggers, args.l, args.r)]
       IN /\ ret.value = Join(texts) \o <<"\n">>
          /\ \A i \in 1..Len(cols) :
                (/\ cols[i].text.kind = "dataText"
                 /\ Nearest(loggers, args.l, cols[i].text.name).ok = FALSE)
                => texts[i] = Spaces(cols[i].text.width)

(***************************************************************************)
(* C16. A log call returns to its caller without a panic, also when the    *)
(* Write of the logger's writer returns an error and when the logger has   *)
(* no encoder or no writer; it makes at most one Write, none without an    *)
(* encoder or a writer, and it leaves every logger as it was, so that the  *)
(* calls after it find the loggers they would have found without it.       *)
(***************************************************************************)
C16_LogReturnsStep ==
    \A l \in Loggers, level \in LogLevelInputs, msg \in MessageInputs :
       \/ /\ ret' = Void
          /\ loggers' = loggers
          /\ Len(written') <= 1
          /\ (loggers[l].encoder = NilEncoder \/ loggers[l].writer = NilWriter)
                => written' = <<>>
       \/ ~CallLog(l, level, msg)

C16_LogReturns == [][C16_LogReturnsStep]_vars

\* A log call has made a Write that returned an error, and has returned.
C16_Witness ==
    /\ ret = Void
    /\ Len(written) = 1
    /\ WriteError(written[1].writer) = "write error"
    /\ written[1].writer = loggers[written[1].bytes.logger].writer

(***************************************************************************)
(* C17. GetCaller(skip) returns for every skip count and every depth of    *)
(* the call stack: the descriptor of the frame at index skip when          *)
(* runtime.Callers has retrieved that frame, and otherwise the unknown     *)
(* descriptor (Package, Function and File "N/A", Line -1).                 *)
(***************************************************************************)
C17_GetCaller ==
    (args.fn = "GetCaller" /\ ret # Void) =>
       /\ ret.kind = "caller"
       /\ IF Callers(args.stack) < args.skip + 1
          THEN ret.value = UnknownCaller
          ELSE ret.value = Descriptor(args.stack[args.skip + 1])

(***************************************************************************)
(* C18. With(n, v) does what Set(n, v) does and returns the logger: from   *)
(* the same loggers, for every key and every value, the two panic or       *)
(* return alike and leave the same data in the logger and in every one of  *)
(* its descendants.                                                        *)
(***************************************************************************)
C18_WithIsSetStep ==
    \A l \in Loggers, n \in KeyInputs, v \in ValueInputs :
       \/ ~CallWith(l, n, v)
       \/ /\ (ret'.kind = "panic") = (Set(loggers, l, n, v).ret.kind = "panic")
          /\ ret'.kind # "panic" => ret' = RetLogger(l)
          /\ \A d \in Subtree(loggers, l) :
                loggers'[d].data = Set(loggers, l, n, v).heap[d].data

C18_WithIsSet == [][C18_WithIsSetStep]_vars

(***************************************************************************)
(* C19. The columns of an encoder value never change once the value has    *)
(* been made: a With on it, or on an encoder it was made from, returns an  *)
(* encoder whose columns are those of the receiver followed by the new     *)
(* ones, and every encoder value made before has the columns it had, two   *)
(* encoders made by With from the same encoder included.                   *)
(***************************************************************************)
C19_FixedColumnsStep ==
    \A e \in 1..Len(encoders) :
       /\ Columns(arrays', encoders'[e]) = Columns(arrays, encoders[e])
       /\ \A cols \in ColumnInputs :
             CallColumnEncoderWith(e, cols) =>
                Columns(arrays', encoders'[Len(encoders')]) =
                   Columns(arrays, encoders[e]) \o cols

C19_FixedColumns == [][C19_FixedColumnsStep]_vars

(***************************************************************************)
(* C20. When SetLevel(Y) on a logger and a lookup of a child of that       *)
(* logger run in two goroutines, then once both have returned the child    *)
(* that the lookup returned has the level Y, whatever the interleaving: a  *)
(* child that the lookup made is not left with the level its parent had    *)
(* before.  (A child that the lookup found was in the child map when       *)
(* SetLevel ran, and has the level Y from SetLevel's loop.)                *)
(***************************************************************************)
C20_ChildLevel ==
    \A t \in Threads, u \in Threads :
        (/\ t # u
         /\ threads[t].status = "done"
         /\ threads[u].status = "done"
         /\ threads[t].call[1].fn = "SetLevel"
         /\ threads[t].call[1].level >= _minLevel
         /\ threads[t].call[1].level <= _maxLevel
         /\ threads[u].call[1].fn = "Logger"
         /\ threads[u].call[1].l = threads[t].call[1].l
         /\ threads[u].ret.kind = "logger")
        => loggers[threads[u].ret.logger].level = threads[t].call[1].level

(***************************************************************************)
(* C21. When two goroutines call SetLevel(Y) and SetLevel(Z), both levels  *)
(* in range, on the same logger, then once both have returned the logger   *)
(* and all its descendants have one and the same level, Y or Z, whatever   *)
(* the interleaving.                                                       *)
(***************************************************************************)
C21_OneLevel ==
    \A t \in Threads, u \in Threads :
        (/\ t # u
         /\ threads[t].status = "done"
         /\ threads[u].status = "done"
         /\ threads[t].call[1].fn = "SetLevel"
         /\ threads[u].call[1].fn = "SetLevel"
         /\ threads[t].call[1].l = threads[u].call[1].l
         /\ \A x \in {t, u} : /\ threads[x].call[1].level >= _minLevel
                              /\ threads[x].call[1].level <= _maxLevel)
        => \E x \in {t, u} :
              \A d \in Subtree(loggers, threads[t].call[1].l) :
                 loggers[d].level = threads[x].call[1].level

(***************************************************************************)
(* C22. Under a fair scheduler every call of Logger, SetLevel, SetWriter,  *)
(* SetEncoder, Set, With, Get and Name that a goroutine has started        *)
(* returns in the end, whatever the other goroutine does: the loops over   *)
(* the children end, the walk to the top ends, and no goroutine waits for  *)
(* a mutex for ever.                                                       *)
(***************************************************************************)
C22_Returns ==
    \A t \in Threads : (threads[t].status = "running") ~> (threads[t].status = "done")

(***************************************************************************)
(* C23.  Name() of the top logger is the empty string and Name() of every  *)
(* other logger is the Name() of its parent, the separator "/" and its own *)
(* name, so that the name of the logger that Logger returns for the path   *)
(* "svc/worker" is the segments joined by one separator, "svc/worker",     *)
(* and this is the text of the name column of its log lines.               *)
(***************************************************************************)
\* The names on the way from the top logger down to l, the top's left out.
Segments(h, l) ==
    LET c == Chain(h, l)
    IN [i \in 1..(Len(c) - 1) |-> h[c[Len(c) - i]].name]

RECURSIVE Joined(_)
\* The segments with one "/" between two of them.
Joined(segs) ==
    IF segs = <<>> THEN <<>>
    ELSE IF Len(segs) = 1 THEN segs[1]
    ELSE segs[1] \o <<"/">> \o Joined(Tail(segs))

RECURSIVE Prefixed(_)
\* The segments with one "/" before each of them.
Prefixed(segs) ==
    IF segs = <<>> THEN <<>>
    ELSE <<"/">> \o segs[1] \o Prefixed(Tail(segs))

\* The text of a name column of the width w in a log line of l.
NameColumn(h, l, w) ==
    ColumnText(Column("logger", NameText(w)), h, l, Record(InfoLevel, <<>>))

C23_JoinedNameStep ==
    /\ Name(loggers', Top) = <<>>
    /\ ret'.kind = "logger" =>
          \A name \in PathInputs :
             \/ /\ Name(loggers', ret'.logger) = Joined(NonEmpty(SplitN(name, "/")))
                /\ NameColumn(loggers', ret'.logger, 0) = Joined(NonEmpty(SplitN(name, "/")))
             \/ ~CallLogger(name)

C23_JoinedName == [][C23_JoinedNameStep]_vars

(***************************************************************************)
(* C23, amended.  Name() of the top logger is the empty string and Name()  *)
(* of every other logger is the Name() of its parent, the separator "/"    *)
(* and its own name, so that the name of the logger that Logger returns    *)
(* for the path "svc/worker" is "/svc/worker": one separator before each   *)
(* segment, the first included.  The name column of a log line holds this  *)
(* name, as textField fits it to the width of the column.                  *)
(***************************************************************************)
C23_FullNameStep ==
    /\ Name(loggers', Top) = <<>>
    /\ \A l \in 1..Len(loggers') :
          Name(loggers', l) = Prefixed(Segments(loggers', l))
    /\ ret'.kind = "logger" =>
          \A name \in PathInputs :
             \/ LET full == Prefixed(NonEmpty(SplitN(name, "/")))
                IN /\ Name(loggers', ret'.logger) = full
                   /\ NameColumn(loggers', ret'.logger, 0) = full
                   /\ \A w \in 1..10 :
                         NameColumn(loggers', ret'.logger, w) = textField(w, full)
             \/ ~CallLogger(name)

C23_FullName == [][C23_FullNameStep]_vars

\* Logger has returned the logger of a path of two segments, whose name is
\* "/a/b_1".
C23_Witness ==
    /\ ret.kind = "logger"
    /\ Len(Chain(loggers, ret.logger)) = 3
    /\ Name(loggers, ret.logger) = <<"/", "a", "/", "b", "_", "1">>

====
